---- MODULE Spec2Model ----
(***************************************************************************)
(* Tic-tac-toe with move history (src/src/App.js).                         *)
(*                                                                         *)
(* Game owns history (a list of board snapshots) and currentMove; Board    *)
(* receives xIsNext, squares and onPlay and derives winner and status on   *)
(* every render.  JavaScript arrays are 0-based: history[k] of the source  *)
(* is history[k + 1] here, and a board is a function on 0..8.              *)
(***************************************************************************)
EXTENDS Integers, Sequences, FiniteSets, TLC

VARIABLES
  history,      \* Game: useState([Array(9).fill(null)])
  currentMove,  \* Game: useState(0)
  xIsNext,      \* Board prop, computed by Game on render
  squares,      \* Board prop, history[currentMove] at render
  winner,       \* Board local, calculateWinner(squares) at render
  status,       \* Board local, the status line
  moves,        \* Game local, one navigation control (its label) per entry
  lastEvent,    \* the UI event handled last: [op, arg]
  prevHistory,  \* history as the last handler found it
  prevMove,     \* currentMove as the last handler found it
  run           \* [jumped, plays]: accepted moves since game start, counted
                \* until the first jump

vars == <<history, currentMove, xIsNext, squares, winner, status, moves,
          lastEvent, prevHistory, prevMove, run>>

gameVars == <<history, currentMove>>
boardVars == <<xIsNext, squares, winner, status>>
eventVars == <<lastEvent, prevHistory, prevMove, run>>

\* Moves are explored on the first MaxCells cells of ClickOrder; a click the
\* handler rejects is explored on every cell.
MaxCells == 5
ClickOrder == <<0, 4, 1, 5, 2, 3, 6, 7, 8>>
PlayCells == {ClickOrder[n] : n \in 1 .. MaxCells}

null == "null"
undefined == "undefined"
Marks == {"X", "O"}
Cells == 0 .. 8
Boards == [Cells -> Marks \cup {null}]

\* Array(9).fill(null)
EmptyBoard == [c \in Cells |-> null]

\* lines with its last triple mistyped
linesWrongDiagonal == << <<0, 1, 2>>, <<3, 4, 5>>, <<6, 7, 8>>,
                         <<0, 3, 6>>, <<1, 4, 7>>, <<2, 5, 8>>,
                         <<0, 4, 8>>, <<2, 4, 8>> >>

\* const lines = [...] in calculateWinner
lines == << <<0, 1, 2>>, <<3, 4, 5>>, <<6, 7, 8>>,
            <<0, 3, 6>>, <<1, 4, 7>>, <<2, 5, 8>>,
            <<0, 4, 8>>, <<2, 4, 6>> >>

\* for (let i = 0; i < lines.length; i++) { ... } return null
RECURSIVE winnerFrom(_, _)
winnerFrom(sq, i) ==
  IF i < Len(lines)
    THEN LET a == lines[i + 1][1]
             b == lines[i + 1][2]
             c == lines[i + 1][3]
         IN IF sq[a] # null /\ sq[a] = sq[b] /\ sq[a] = sq[c]
              THEN sq[a]
              ELSE winnerFrom(sq, i + 1)
    ELSE null

\* calculateWinner with its loop started at i = 1
calculateWinnerFromOne(sq) == winnerFrom(sq, 1)

calculateWinner(sq) == winnerFrom(sq, 0)

\* array.slice(from, to) on a 0-based array
slice(arr, from, to) == SubSeq(arr, from + 1, to)

\* history[k] of the source, for an index k of the array
At(h, k) == h[k + 1]

\* desc numbering the moves from 2
descOffByOne(move) ==
  IF move # 0
    THEN "Go to move #" \o ToString(move + 1)
    ELSE "Go to game start"

\* 'Go to move #' + move, or 'Go to game start'
desc(move) ==
  IF move # 0 THEN "Go to move #" \o ToString(move) ELSE "Go to game start"

\* history.map((squares, move) => <li key={move}>...jumpTo(move)...</li>)
Moves(h) == [move \in 0 .. Len(h) - 1 |-> desc(move)]

\* Status with the two player marks the wrong way round
StatusSwapped(w, x) ==
  IF w # null
    THEN "Winner: " \o w
    ELSE "Next player: " \o (IF x THEN "O" ELSE "X")

\* The status line of Board
Status(w, x) ==
  IF w # null
    THEN "Winner: " \o w
    ELSE "Next player: " \o (IF x THEN "X" ELSE "O")

\* xIsNext testing for an odd currentMove
XIsNextOdd(move) == move % 2 = 1

\* const xIsNext = currentMove % 2 === 0
XIsNext(move) == move % 2 = 0

\* Board({ xIsNext, squares, onPlay }): the render of Board
Board(x, sq) ==
  /\ xIsNext' = x
  /\ squares' = sq
  /\ winner' = calculateWinner(sq)
  /\ status' = Status(winner', x)

\* Game render that keeps the navigation controls of its first render
\* (moves memoized with no dependency on history)
GameStaleMoves ==
  IF currentMove' \in 0 .. Len(history') - 1
    THEN /\ Board(XIsNext(currentMove'), At(history', currentMove'))
         /\ moves' = moves
    ELSE /\ xIsNext' = XIsNext(currentMove')
         /\ squares' = undefined
         /\ winner' = undefined
         /\ status' = undefined
         /\ moves' = << >>

\* The render of Game on the state the handler left.  When currentMove is no
\* index of history, currentSquares is undefined, calculateWinner(squares)
\* throws in Board and nothing is rendered.
Game ==
  IF currentMove' \in 0 .. Len(history') - 1
    THEN /\ Board(XIsNext(currentMove'), At(history', currentMove'))
         /\ moves' = Moves(history')
    ELSE /\ xIsNext' = XIsNext(currentMove')
         /\ squares' = undefined
         /\ winner' = undefined
         /\ status' = undefined
         /\ moves' = << >>

\* handlePlay appending to the whole history: no slice
handlePlayNoSlice(nextSquares) ==
  LET nextHistory == history \o <<nextSquares>>
  IN /\ history' = nextHistory
     /\ currentMove' = Len(nextHistory) - 1

\* handlePlay slicing one entry short: history.slice(0, currentMove)
handlePlayShortSlice(nextSquares) ==
  LET nextHistory == slice(history, 0, currentMove) \o <<nextSquares>>
  IN /\ history' = nextHistory
     /\ currentMove' = Len(nextHistory) - 1

\* handlePlay setting currentMove to nextHistory.length
handlePlayIndexLength(nextSquares) ==
  LET nextHistory == slice(history, 0, currentMove + 1) \o <<nextSquares>>
  IN /\ history' = nextHistory
     /\ currentMove' = Len(nextHistory)

\* handlePlay(nextSquares)
handlePlay(nextSquares) ==
  LET nextHistory == slice(history, 0, currentMove + 1) \o <<nextSquares>>
  IN /\ history' = nextHistory
     /\ currentMove' = Len(nextHistory) - 1

\* jumpTo that also drops the entries after nextMove
jumpToTruncating(nextMove) ==
  /\ currentMove' = nextMove
  /\ history' = slice(history, 0, nextMove + 1)

\* jumpTo refused while the active snapshot has a winner
jumpToBlockedByWinner(nextMove) ==
  IF calculateWinner(At(history, currentMove)) # null
    THEN UNCHANGED gameVars
    ELSE /\ currentMove' = nextMove
         /\ UNCHANGED history

\* jumpTo(nextMove)
jumpTo(nextMove) ==
  /\ currentMove' = nextMove
  /\ UNCHANGED history

\* handleClick placing 'X' whoever's turn it is
handleClickAlwaysX(i) ==
  IF calculateWinner(squares) # null \/ squares[i] # null
    THEN UNCHANGED gameVars
    ELSE handlePlay([squares EXCEPT ![i] = "X"])

\* handleClick without the squares[i] test
handleClickNoOccupiedTest(i) ==
  IF calculateWinner(squares) # null
    THEN UNCHANGED gameVars
    ELSE handlePlay([squares EXCEPT ![i] = IF xIsNext THEN "X" ELSE "O"])

\* handleClick without the calculateWinner(squares) test
handleClickNoWinnerTest(i) ==
  IF squares[i] # null
    THEN UNCHANGED gameVars
    ELSE handlePlay([squares EXCEPT ![i] = IF xIsNext THEN "X" ELSE "O"])

\* Board.handleClick(i); onPlay is Game.handlePlay
handleClick(i) ==
  IF calculateWinner(squares) # null \/ squares[i] # null
    THEN UNCHANGED gameVars
    ELSE LET nextSquares == [squares EXCEPT ![i] = IF xIsNext THEN "X" ELSE "O"]
         IN handlePlay(nextSquares)

\* The handler is entered with the state of the last render
Dispatch(op, arg) ==
  /\ lastEvent' = [op |-> op, arg |-> arg]
  /\ prevHistory' = history
  /\ prevMove' = currentMove

\* A click on square i: onSquareClick={() => handleClick(index)}
ClickSquare(i) ==
  /\ status # undefined
  /\ i \in PlayCells \/ winner # null \/ squares[i] # null
  /\ Dispatch("click", i)
  /\ handleClick(i)
  /\ run' = IF ~run.jumped /\ history' # history
              THEN [run EXCEPT !.plays = @ + 1]
              ELSE run
  /\ Game

\* A click on navigation control k: onClick={() => jumpTo(move)}
ClickMove(k) ==
  /\ Dispatch("jump", k)
  /\ jumpTo(k)
  /\ run' = [jumped |-> TRUE, plays |-> 0]
  /\ Game

Init ==
  /\ history = <<EmptyBoard>>
  /\ currentMove = 0
  /\ xIsNext = TRUE
  /\ squares = EmptyBoard
  /\ winner = null
  /\ status = "Next player: X"
  /\ moves = Moves(<<EmptyBoard>>)
  /\ lastEvent = [op |-> "none", arg |-> 0]
  /\ prevHistory = <<EmptyBoard>>
  /\ prevMove = 0
  /\ run = [jumped |-> FALSE, plays |-> 0]

Next ==
  \/ \E i \in Cells : ClickSquare(i)
  \/ \E k \in DOMAIN moves : ClickMove(k)

Spec == Init /\ [][Next]_vars

(***************************************************************************)
(* Board on its own: any squares prop, rendered once.                      *)
(***************************************************************************)
InitBoard ==
  /\ history = <<EmptyBoard>>
  /\ currentMove = 0
  /\ xIsNext \in BOOLEAN
  /\ squares \in Boards
  /\ winner = undefined
  /\ status = undefined
  /\ moves = Moves(<<EmptyBoard>>)
  /\ lastEvent = [op |-> "none", arg |-> 0]
  /\ prevHistory = <<EmptyBoard>>
  /\ prevMove = 0
  /\ run = [jumped |-> FALSE, plays |-> 0]

RenderBoard ==
  /\ status = undefined
  /\ Board(xIsNext, squares)
  /\ UNCHANGED <<gameVars, moves, eventVars>>

NextBoard == RenderBoard

SpecBoard == InitBoard /\ [][NextBoard]_vars

(***************************************************************************)
(* The late game: play starts after the moves of Opening, a position the   *)
(* game reaches by five accepted clicks, and goes on to full boards.       *)
(* Moves are explored on every cell but only from index OpeningLen on, so  *)
(* that the last EndMoves moves of a game are explored in full; jumps go   *)
(* to every control and rejected clicks are explored everywhere.           *)
(***************************************************************************)
EndMoves == 4
Opening == <<0, 1, 2, 4, 5>>
OpeningLen == Cardinality(Cells) - EndMoves

\* The history after the first n moves of Opening, built as handleClick and
\* handlePlay build it from game start
RECURSIVE OpeningHistory(_)
OpeningHistory(n) ==
  IF n = 0
    THEN <<EmptyBoard>>
    ELSE LET h == OpeningHistory(n - 1)
         IN h \o << [h[n] EXCEPT ![Opening[n]] =
                                  IF XIsNext(n - 1) THEN "X" ELSE "O"] >>

InitLate ==
  /\ history = OpeningHistory(OpeningLen)
  /\ currentMove = OpeningLen
  /\ xIsNext = XIsNext(OpeningLen)
  /\ squares = At(history, currentMove)
  /\ winner = calculateWinner(squares)
  /\ status = Status(winner, xIsNext)
  /\ moves = Moves(history)
  /\ lastEvent = [op |-> "click", arg |-> Opening[OpeningLen]]
  /\ prevHistory = OpeningHistory(OpeningLen - 1)
  /\ prevMove = OpeningLen - 1
  /\ run = [jumped |-> FALSE, plays |-> OpeningLen]

\* A click on square i, as ClickSquare
ClickSquareLate(i) ==
  /\ status # undefined
  /\ currentMove >= OpeningLen \/ winner # null \/ squares[i] # null
  /\ Dispatch("click", i)
  /\ handleClick(i)
  /\ run' = IF ~run.jumped /\ history' # history
              THEN [run EXCEPT !.plays = @ + 1]
              ELSE run
  /\ Game

NextLate ==
  \/ \E i \in Cells : ClickSquareLate(i)
  \/ \E k \in DOMAIN moves : ClickMove(k)

SpecLate == InitLate /\ [][NextLate]_vars

(***************************************************************************)
(* Properties.  The winning triples are written out again here, as sets,   *)
(* so that the properties do not read them from lines.                     *)
(***************************************************************************)
Triples == { {0, 1, 2}, {3, 4, 5}, {6, 7, 8},
             {0, 3, 6}, {1, 4, 7}, {2, 5, 8},
             {0, 4, 8}, {2, 4, 6} }

HasLine(b, m) == \E t \in Triples : \A c \in t : b[c] = m
NoLine(b) == \A m \in Marks : ~HasLine(b, m)
Full(b) == \A c \in Cells : b[c] # null

\* The state the last handler found, and the event it handled
prevSquares == At(prevHistory, prevMove)
Clicked == lastEvent.op = "click"
Jumped == lastEvent.op = "jump"
MarkAt(k) == IF k % 2 = 0 THEN "X" ELSE "O"

\* C1: on every board of {null, X, O}^9, calculateWinner returns a mark m
\* only if one of the 8 triples holds m in all three slots, returns a mark
\* whenever some triple is uniformly marked, and returns null otherwise
\* (the empty board and the full boards without a uniform triple included).
C1_WinnerContract ==
  status # undefined =>
    /\ winner \in Marks => HasLine(squares, winner)
    /\ ~NoLine(squares) => winner \in Marks
    /\ NoLine(squares) => winner = null

\* C1 witness: a full board without a uniform triple, rendered with no winner
C1_Witness ==
  /\ status # undefined
  /\ Full(squares)
  /\ NoLine(squares)
  /\ winner = null

\* C2: a click on cell i, with no winner on the current snapshot and slot i
\* empty, appends a snapshot equal to the current one except that slot i
\* holds X (currentMove even) or O (odd); currentMove becomes the old
\* currentMove + 1 and is the last index of history.
C2_AcceptedMove ==
  (Clicked /\ NoLine(prevSquares) /\ prevSquares[lastEvent.arg] = null) =>
    /\ Len(history) >= 2
    /\ \A c \in Cells \ {lastEvent.arg} :
         history[Len(history)][c] = prevSquares[c]
    /\ history[Len(history)][lastEvent.arg] = MarkAt(prevMove)
    /\ currentMove = prevMove + 1
    /\ currentMove = Len(history) - 1

\* C2 witness: O has just been placed on an empty cell
C2_Witness ==
  /\ Clicked
  /\ NoLine(prevSquares)
  /\ prevSquares[lastEvent.arg] = null
  /\ prevMove % 2 = 1
  /\ squares[lastEvent.arg] = "O"

\* C3: a click on a cell whose slot in the current snapshot is occupied
\* changes neither history (its entries and its length) nor currentMove.
C3_OccupiedNoOp ==
  (Clicked /\ prevSquares[lastEvent.arg] # null) =>
    /\ history = prevHistory
    /\ currentMove = prevMove

\* C3 witness: an occupied cell was clicked on a board without a winner,
\* with later snapshots in history
C3_Witness ==
  /\ Clicked
  /\ prevSquares[lastEvent.arg] # null
  /\ NoLine(prevSquares)
  /\ prevMove < Len(prevHistory) - 1

\* C4: while calculateWinner reports a winner on the current snapshot, a
\* click on any cell, occupied or empty, changes neither history nor
\* currentMove.
C4_WonNoOp ==
  (Clicked /\ calculateWinner(prevSquares) # null) =>
    /\ history = prevHistory
    /\ currentMove = prevMove

\* C4 witness: an empty cell was clicked on a won board
C4_Witness ==
  /\ Clicked
  /\ calculateWinner(prevSquares) # null
  /\ prevSquares[lastEvent.arg] = null

\* A click the handler accepts: no winner on the snapshot, the cell empty
Accepted ==
  /\ Clicked
  /\ calculateWinner(prevSquares) = null
  /\ prevSquares[lastEvent.arg] = null

\* C5: an accepted move made at currentMove = m (the state jumpTo(m)
\* leaves) discards every entry with index > m before appending:
\* afterwards history has m + 2 entries, entries 0..m are the entries 0..m
\* of before, entry m + 1 is the new snapshot, and no navigation control
\* exists for any former index > m + 1.
C5_BranchDiscards ==
  Accepted =>
    /\ Len(history) = prevMove + 2
    /\ \A k \in 0 .. prevMove : At(history, k) = At(prevHistory, k)
    /\ At(history, prevMove + 1) =
         [prevSquares EXCEPT ![lastEvent.arg] = MarkAt(prevMove)]
    /\ \A k \in 0 .. Len(prevHistory) - 1 :
         k > prevMove + 1 => k \notin DOMAIN moves

\* C5 witness: a move accepted at an index with at least two later entries,
\* which only a jump leaves; the entry after it was replaced, the rest dropped
C5_Witness ==
  /\ Accepted
  /\ Len(prevHistory) > prevMove + 2
  /\ At(history, prevMove + 1) # At(prevHistory, prevMove + 1)
  /\ Len(history) < Len(prevHistory)

\* C6: jumpTo(k) with 0 <= k < length(history) sets currentMove to k and
\* leaves history as it was, entries after k included; each of them keeps
\* its navigation control.
C6_JumpKeepsHistory ==
  (Jumped /\ lastEvent.arg \in 0 .. Len(prevHistory) - 1) =>
    /\ currentMove = lastEvent.arg
    /\ history = prevHistory
    /\ DOMAIN moves = 0 .. Len(prevHistory) - 1

\* C6 witness: a jump back from the last entry, over at least two entries
C6_Witness ==
  /\ Jumped
  /\ prevMove = Len(prevHistory) - 1
  /\ lastEvent.arg + 2 < Len(prevHistory)
  /\ currentMove = lastEvent.arg

\* C7: history[0] is the all-empty board, and every history[k], k >= 1,
\* differs from history[k-1] in exactly one slot, empty in history[k-1] and
\* marked in history[k].
C7_OneMarkPerEntry ==
  /\ At(history, 0) = EmptyBoard
  /\ \A k \in 1 .. Len(history) - 1 :
       \E c \in Cells :
         /\ At(history, k - 1)[c] = null
         /\ At(history, k)[c] \in Marks
         /\ \A d \in Cells \ {c} : At(history, k)[d] = At(history, k - 1)[d]

\* C7 witness: after accepted moves and a jump, a click was rejected
C7_Witness ==
  /\ Len(history) >= 4
  /\ run.jumped
  /\ Clicked
  /\ ~Accepted
  /\ currentMove < Len(history) - 1

\* C8: 0 <= currentMove < length(history), and the active snapshot
\* history[currentMove] is defined: Board is rendered on it.
C8_IndexInRange ==
  /\ 0 <= currentMove
  /\ currentMove < Len(history)
  /\ status # undefined
  /\ squares = At(history, currentMove)
  /\ squares \in Boards

\* C8 witness: a jump from the first entry to the last control rendered
C8_Witness ==
  /\ Jumped
  /\ prevMove = 0
  /\ Len(history) >= 3
  /\ lastEvent.arg = Len(history) - 1
  /\ currentMove = Len(history) - 1

\* C9: it is X's turn iff currentMove is even; and after k accepted moves
\* from game start, with no jump in between, it is X's turn iff k is even.
C9_TurnParity ==
  /\ xIsNext <=> currentMove % 2 = 0
  /\ ~run.jumped => (xIsNext <=> run.plays % 2 = 0)

\* C9 witness: three moves accepted from game start, no jump: O's turn
C9_Witness ==
  /\ ~run.jumped
  /\ run.plays = 3
  /\ ~xIsNext

\* C10: the status line is "Winner: m" exactly when calculateWinner on the
\* active snapshot is the mark m; otherwise it is "Next player: X" at an
\* even currentMove and "Next player: O" at an odd one.
C10_StatusLine ==
  LET w == calculateWinner(At(history, currentMove))
  IN /\ status = "Winner: X" <=> w = "X"
     /\ status = "Winner: O" <=> w = "O"
     /\ w \notin Marks =>
          status = IF currentMove % 2 = 0
                     THEN "Next player: X"
                     ELSE "Next player: O"

\* C10 witness: a won snapshot is active again after a jump
C10_Witness ==
  /\ status = "Winner: X"
  /\ Jumped
  /\ prevMove # currentMove

\* The board with X on the cells xs and O on the cells os
Marked(xs, os) ==
  [c \in Cells |-> IF c \in xs THEN "X" ELSE IF c \in os THEN "O" ELSE null]

\* The end-to-end scenario: the cells activated, and the history after them
ScenarioCells == <<0, 4, 1, 5, 2>>
ScenarioBoards == << Marked({}, {}),
                     Marked({0}, {}),
                     Marked({0}, {4}),
                     Marked({0, 1}, {4}),
                     Marked({0, 1}, {4, 5}),
                     Marked({0, 1, 2}, {4, 5}) >>

\* C11: from the initial state, activating cells 0, 4, 1, 5, 2 in turn leads
\* step by step through ScenarioBoards to history of length 6, currentMove 5,
\* X on 0, 1, 2, O on 4, 5 and status "Winner: X"; from that state every
\* cell activation leaves history and currentMove unchanged.
C11_Scenario ==
  /\ lastEvent.op = "none" =>
       history = SubSeq(ScenarioBoards, 1, 1) /\ currentMove = 0
  /\ \A n \in 1 .. Len(ScenarioCells) :
       ( /\ Clicked
         /\ lastEvent.arg = ScenarioCells[n]
         /\ prevHistory = SubSeq(ScenarioBoards, 1, n)
         /\ prevMove = n - 1 )
       => /\ history = SubSeq(ScenarioBoards, 1, n + 1)
          /\ currentMove = n
  /\ (history = ScenarioBoards /\ currentMove = 5) =>
       /\ status = "Winner: X"
       /\ squares = Marked({0, 1, 2}, {4, 5})
       /\ Len(history) = 6
  /\ (Clicked /\ prevHistory = ScenarioBoards /\ prevMove = 5) =>
       /\ history = ScenarioBoards
       /\ currentMove = 5

\* C11 witness: after the five activations, with no jump, an empty cell was
\* activated and nothing changed
C11_Witness ==
  /\ ~run.jumped
  /\ run.plays = 5
  /\ Clicked
  /\ prevHistory = ScenarioBoards
  /\ prevMove = 5
  /\ lastEvent.arg = 3
  /\ history = ScenarioBoards
  /\ status = "Winner: X"

\* C12: with 4 entries in history and currentMove 3 (three accepted moves),
\* jumpTo(1) makes the active snapshot the one holding only the first move's
\* mark and the next turn O, history keeping its 4 entries; a move accepted
\* from there leaves exactly 3 entries (empty board, first move, the new O
\* move) and currentMove 2, the former 3rd-move snapshot gone and the
\* former 2nd-move entry replaced by the new snapshot.
C12_JumpThenBranch ==
  /\ (Jumped /\ lastEvent.arg = 1 /\ Len(prevHistory) = 4 /\ prevMove = 3) =>
       /\ currentMove = 1
       /\ Len(history) = 4
       /\ squares = At(prevHistory, 1)
       /\ \E c \in Cells : squares = Marked({c}, {})
       /\ ~xIsNext
       /\ status = "Next player: O"
  /\ (Accepted /\ prevMove = 1 /\ Len(prevHistory) = 4) =>
       /\ Len(history) = 3
       /\ currentMove = 2
       /\ At(history, 0) = Marked({}, {})
       /\ At(history, 1) = At(prevHistory, 1)
       /\ At(history, 2) = [At(prevHistory, 1) EXCEPT ![lastEvent.arg] = "O"]
       /\ \A k \in 0 .. 2 : At(history, k) # At(prevHistory, 3)

\* C12 witness: a move accepted at index 1 of a 4-entry history, on another
\* cell than the former second move
C12_Witness ==
  /\ Accepted
  /\ prevMove = 1
  /\ Len(prevHistory) = 4
  /\ Len(history) = 3
  /\ At(history, 2) # At(prevHistory, 2)

prevLatest == At(prevHistory, Len(prevHistory) - 1)

\* C14: no state is terminal.  While the active snapshot has a winner every
\* entry keeps its navigation control and a jump from the won snapshot is
\* carried out; a click on an empty cell of a snapshot without winner,
\* reached by jumping back from a won game, is accepted: it appends the new
\* snapshot at the index after the one jumped to and the won entry is
\* dropped or replaced.  Control 0 always exists and at index 0 every click
\* is accepted, so play can always go on.
C14_NoTerminalState ==
  /\ winner # null => \A k \in 0 .. Len(history) - 1 : k \in DOMAIN moves
  /\ (Jumped /\ calculateWinner(prevSquares) # null) =>
       /\ currentMove = lastEvent.arg
       /\ history = prevHistory
  /\ (Accepted /\ calculateWinner(prevLatest) # null) =>
       /\ prevMove < Len(prevHistory) - 1
       /\ Len(history) = prevMove + 2
       /\ currentMove = prevMove + 1
       /\ At(history, currentMove) =
            [prevSquares EXCEPT ![lastEvent.arg] = MarkAt(prevMove)]
  /\ 0 \in DOMAIN moves
  /\ (Clicked /\ prevMove = 0) => (Len(history) = 2 /\ currentMove = 1)

\* C14 witness: after a jump back from a won game a move was accepted and
\* the game is open again
C14_Witness ==
  /\ Accepted
  /\ calculateWinner(prevLatest) # null
  /\ Len(history) = prevMove + 2
  /\ calculateWinner(At(history, currentMove)) = null

\* C15: when the active snapshot is fully occupied without a uniform triple
\* (a draw), the status is "Next player: O", as for a game in progress,
\* currentMove is 9, and a click on any cell changes nothing.
C15_Draw ==
  /\ (Full(squares) /\ NoLine(squares)) =>
       /\ status = "Next player: O"
       /\ currentMove = 9
  /\ (Clicked /\ Full(prevSquares) /\ NoLine(prevSquares)) =>
       /\ history = prevHistory
       /\ currentMove = prevMove

\* C15 witness: a cell was clicked on a drawn board
C15_Witness ==
  /\ Clicked
  /\ Full(prevSquares)
  /\ NoLine(prevSquares)
  /\ Full(squares)
  /\ status = "Next player: O"
  /\ currentMove = 9

\* The labels of the controls 1..9, written out
MoveLabels == << "Go to move #1", "Go to move #2", "Go to move #3",
                 "Go to move #4", "Go to move #5", "Go to move #6",
                 "Go to move #7", "Go to move #8", "Go to move #9" >>

MarksOn(b) == Cardinality({c \in Cells : b[c] # null})

\* C16: the navigator holds exactly one control per history entry, indices
\* 0..length(history)-1; control 0 is labelled "Go to game start", control
\* k > 0 "Go to move #k", and control k sets currentMove to k; the number of
\* controls is one more than the number of marks on the latest snapshot,
\* hence between 1 and 10.
C16_Controls ==
  /\ DOMAIN moves = 0 .. Len(history) - 1
  /\ moves[0] = "Go to game start"
  /\ \A k \in 1 .. Len(history) - 1 : moves[k] = MoveLabels[k]
  /\ Jumped => currentMove = lastEvent.arg
  /\ Cardinality(DOMAIN moves) = 1 + MarksOn(At(history, Len(history) - 1))
  /\ Cardinality(DOMAIN moves) \in 1 .. 10

\* C16 witness: ten controls, and control 9 has just been activated from
\* another index
C16_Witness ==
  /\ Cardinality(DOMAIN moves) = 10
  /\ moves[9] = "Go to move #9"
  /\ Jumped
  /\ lastEvent.arg = 9
  /\ prevMove # 9
  /\ currentMove = 9

CountOf(b, m) == Cardinality({c \in Cells : b[c] = m})

\* C17: every history[k] holds exactly k marks, ceil(k/2) of them X and
\* floor(k/2) of them O; so the mark that parity gives the next move (X at
\* an even currentMove, O at an odd one) is the mark a legal game places:
\* X when the active snapshot holds as many X as O, O when it holds one
\* more X than O.
C17_MarkCounts ==
  /\ \A k \in 0 .. Len(history) - 1 :
       /\ MarksOn(At(history, k)) = k
       /\ CountOf(At(history, k), "X") = (k + 1) \div 2
       /\ CountOf(At(history, k), "O") = k \div 2
  /\ xIsNext <=> CountOf(squares, "X") = CountOf(squares, "O")
  /\ ~xIsNext <=> CountOf(squares, "X") = CountOf(squares, "O") + 1

\* C17 witness: O has just replaced a branch, after a jump back over at
\* least two entries
C17_Witness ==
  /\ run.jumped
  /\ Accepted
  /\ Len(prevHistory) > prevMove + 2
  /\ prevMove % 2 = 1
  /\ CountOf(squares, "O") = CountOf(squares, "X")

\* C18: only the last history entry can hold a winner: calculateWinner is
\* null on every entry before the last.
\* A click on a won snapshot appends nothing, and an accepted move leaves its
\* new snapshot last, whatever came after the active entry before.
C18_WinnerOnlyLast ==
  /\ \A k \in 0 .. Len(history) - 2 : calculateWinner(At(history, k)) = null
  /\ (Clicked /\ calculateWinner(prevSquares) # null) => history = prevHistory
  /\ Accepted => Len(history) = prevMove + 2

\* C18 witness: the last entry is won by O and an earlier entry is active
C18_Witness ==
  /\ calculateWinner(At(history, Len(history) - 1)) = "O"
  /\ Jumped
  /\ currentMove < Len(history) - 1

\* calculateWinner with the triples scanned from the last to the first
RECURSIVE winnerBack(_, _)
winnerBack(sq, i) ==
  IF i >= 1
    THEN IF /\ sq[lines[i][1]] # null
            /\ sq[lines[i][1]] = sq[lines[i][2]]
            /\ sq[lines[i][1]] = sq[lines[i][3]]
           THEN sq[lines[i][1]]
           ELSE winnerBack(sq, i - 1)
    ELSE null

\* C19: no snapshot in history holds a uniform triple of X and a uniform
\* triple of O at once, so calculateWinner gives the same result on it
\* whichever way the 8 triples are scanned.
C19_OneWinner ==
  \A k \in 0 .. Len(history) - 1 :
    /\ ~(HasLine(At(history, k), "X") /\ HasLine(At(history, k), "O"))
    /\ calculateWinner(At(history, k)) = winnerBack(At(history, k), Len(lines))

\* C19 witness: a full board won by X with its ninth mark
C19_Witness ==
  /\ Full(squares)
  /\ HasLine(squares, "X")
  /\ currentMove = Len(history) - 1

====
